---- MODULE Spec2Model ----
(***************************************************************************)
(* Model of the aviation weather tool server (src/server.py): the shared   *)
(* HTTP helper _awc_get, the error formatter _handle_error and the five    *)
(* tool coroutines get_metar, get_taf, get_pireps, get_airsigmet and       *)
(* get_station_info.                                                       *)
(*                                                                         *)
(* A Python str is a sequence of one-character strings, so that prefixes,  *)
(* slices, strip() and line breaks are computed and not assumed.  Python   *)
(* values are records tagged with their type.                              *)
(***************************************************************************)
EXTENDS Integers, Sequences, FiniteSets, TLC

(***************************************************************************)
(* Bounds and program constants                                            *)
(***************************************************************************)
NumProcs == 2

ExcerptLen == 300
DefaultDistance == 200
DefaultAge == 2
JsonIndent == 2

Procs == 1..NumProcs

(***************************************************************************)
(* Characters and text                                                     *)
(***************************************************************************)
NL == "\n"
EnDash == "U+2013"
Whitespace == {" ", NL, "\t"}

Min(S) == CHOOSE x \in S : \A y \in S : x <= y
Max(S) == CHOOSE x \in S : \A y \in S : x >= y

\* s[:n]
Slice(s, n) == IF Len(s) <= n THEN s ELSE SubSeq(s, 1, n)

\* s.strip()
Strip(s) ==
    LET keep == {k \in 1..Len(s) : s[k] \notin Whitespace}
    IN  IF keep = {} THEN <<>> ELSE SubSeq(s, Min(keep), Max(keep))

\* sub in s
Contains(s, sub) ==
    \E k \in 0..(Len(s) - Len(sub)) : SubSeq(s, k + 1, k + Len(sub)) = sub

StartsWith(s, p) == Len(s) >= Len(p) /\ SubSeq(s, 1, Len(p)) = p

Digits == <<"0", "1", "2", "3", "4", "5", "6", "7", "8", "9">>

RECURSIVE DecStr(_)
\* str(n) for a non-negative int
DecStr(n) ==
    IF n < 10 THEN <<Digits[n + 1]>>
    ELSE DecStr(n \div 10) \o <<Digits[(n % 10) + 1]>>

\* n copies of the character c
Rep(c, n) == [k \in 1..n |-> c]

(***************************************************************************)
(* Python values                                                           *)
(***************************************************************************)
Omitted == [t |-> "omitted"]
PyNone == [t |-> "None"]
PyStr(s) == [t |-> "str", s |-> s]
PyNum(n) == [t |-> "num", n |-> n]
PyBool(b) == [t |-> "bool", b |-> b]
PyList(items) == [t |-> "list", items |-> items]
PyDict(pairs) == [t |-> "dict", pairs |-> pairs]
Pair(k, v) == [k |-> k, v |-> v]

\* bool(v) for the values the tools test
Truthy(v) ==
    CASE v.t = "None" -> FALSE
      [] v.t = "str" -> v.s # <<>>
      [] v.t = "num" -> v.n # 0
      [] v.t = "bool" -> v.b
      [] v.t = "list" -> v.items # <<>>
      [] v.t = "dict" -> v.pairs # <<>>

\* x or y
PyOr(x, y) == IF Truthy(x) THEN x ELSE y

(***************************************************************************)
(* json.dumps(value, indent=2) and the upstream's compact encoding         *)
(***************************************************************************)
\* one character inside a JSON string literal (ensure_ascii is on)
EscapeChar(c) ==
    CASE c = "\"" -> <<"\\", "\"">>
      [] c = "\\" -> <<"\\", "\\">>
      [] c = NL -> <<"\\", "n">>
      [] c = "\t" -> <<"\\", "t">>
      [] c = EnDash -> <<"\\", "u", "2", "0", "1", "3">>
      [] OTHER -> <<c>>

RECURSIVE EscapeRange(_, _, _)
\* the escaped characters s[lo..hi]
EscapeRange(s, lo, hi) ==
    IF lo > hi THEN <<>>
    ELSE IF lo = hi THEN EscapeChar(s[lo])
    ELSE LET m == (lo + hi) \div 2
         IN  EscapeRange(s, lo, m) \o EscapeRange(s, m + 1, hi)

EscapeStr(s) == EscapeRange(s, 1, Len(s))

Quoted(s) == <<"\"">> \o EscapeStr(s) \o <<"\"">>

RECURSIVE Join(_, _)
\* sep.join(parts)
Join(parts, sep) ==
    IF Len(parts) = 0 THEN <<>>
    ELSE IF Len(parts) = 1 THEN parts[1]
    ELSE parts[1] \o sep \o Join(Tail(parts), sep)

RECURSIVE DumpsAt(_, _)
\* the text json.dumps(v, indent=2) writes for v nested `level` deep
DumpsAt(v, level) ==
    LET pad(n) == Rep(" ", JsonIndent * n)
        open(b) == <<b, NL>> \o pad(level + 1)
        close(b) == <<NL>> \o pad(level) \o <<b>>
        sep == <<",", NL>> \o pad(level + 1)
    IN  CASE v.t = "str" -> Quoted(v.s)
          [] v.t = "num" -> DecStr(v.n)
          [] v.t = "bool" -> IF v.b THEN <<"t", "r", "u", "e">>
                             ELSE <<"f", "a", "l", "s", "e">>
          [] v.t = "None" -> <<"n", "u", "l", "l">>
          [] v.t = "list" ->
                IF v.items = <<>> THEN <<"[", "]">>
                ELSE open("[")
                     \o Join([k \in 1..Len(v.items) |->
                                 DumpsAt(v.items[k], level + 1)], sep)
                     \o close("]")
          [] v.t = "dict" ->
                IF v.pairs = <<>> THEN <<"{", "}">>
                ELSE open("{")
                     \o Join([k \in 1..Len(v.pairs) |->
                                 Quoted(v.pairs[k].k) \o <<":", " ">>
                                 \o DumpsAt(v.pairs[k].v, level + 1)], sep)
                     \o close("}")

Dumps(v) == DumpsAt(v, 0)

RECURSIVE Wire(_)
\* the compact JSON text the upstream sends for the document v
Wire(v) ==
    CASE v.t = "str" -> Quoted(v.s)
      [] v.t = "num" -> DecStr(v.n)
      [] v.t = "bool" -> IF v.b THEN <<"t", "r", "u", "e">>
                         ELSE <<"f", "a", "l", "s", "e">>
      [] v.t = "None" -> <<"n", "u", "l", "l">>
      [] v.t = "list" ->
            <<"[">> \o Join([k \in 1..Len(v.items) |-> Wire(v.items[k])],
                            <<",">>) \o <<"]">>
      [] v.t = "dict" ->
            <<"{">> \o Join([k \in 1..Len(v.pairs) |->
                                Quoted(v.pairs[k].k) \o <<":">>
                                \o Wire(v.pairs[k].v)], <<",">>) \o <<"}">>

(***************************************************************************)
(* Text constants of the program                                           *)
(***************************************************************************)
Json ==
    <<"j", "s", "o", "n">>

KeyMessage ==
    <<"m", "e", "s", "s", "a", "g", "e">>

KeyError ==
    <<"e", "r", "r", "o", "r">>

NoDataText ==
    <<"N", "o", " ", "d", "a", "t", "a", " ", "a", "v", "a", "i", "l", "a",
      "b", "l", "e", " ", "f", "o", "r", " ", "t", "h", "i", "s", " ", "r",
      "e", "q", "u", "e", "s", "t", ".">>

BadRequestHead ==
    <<"B", "a", "d", " ", "r", "e", "q", "u", "e", "s", "t", " ", EnDash,
      " ", "c", "h", "e", "c", "k", " ", "y", "o", "u", "r", " ", "p", "a",
      "r", "a", "m", "e", "t", "e", "r", "s", ".", " ", "D", "e", "t", "a",
      "i", "l", "s", ":", " ">>

StatusErrorHead ==
    <<"E", "r", "r", "o", "r", ":", " ", "A", "P", "I", " ", "r", "e", "t",
      "u", "r", "n", "e", "d", " ", "s", "t", "a", "t", "u", "s", " ">>

StatusErrorSep ==
    <<".", " ">>

TimeoutMessage ==
    <<"E", "r", "r", "o", "r", ":", " ", "R", "e", "q", "u", "e", "s", "t",
      " ", "t", "o", " ", "a", "v", "i", "a", "t", "i", "o", "n", "w", "e",
      "a", "t", "h", "e", "r", ".", "g", "o", "v", " ", "t", "i", "m", "e",
      "d", " ", "o", "u", "t", ".", " ", "T", "r", "y", " ", "a", "g", "a",
      "i", "n", ".">>

GenericErrorHead ==
    <<"E", "r", "r", "o", "r", ":", " ">>

GenericErrorSep ==
    <<":", " ">>

(***************************************************************************)
(* Exceptions: httpx, json and asyncio classes with their base classes     *)
(***************************************************************************)
NameHTTPStatusError ==
    <<"H", "T", "T", "P", "S", "t", "a", "t", "u", "s", "E", "r", "r", "o",
      "r">>

NameReadTimeout ==
    <<"R", "e", "a", "d", "T", "i", "m", "e", "o", "u", "t">>

NameConnectError ==
    <<"C", "o", "n", "n", "e", "c", "t", "E", "r", "r", "o", "r">>

NameJSONDecodeError ==
    <<"J", "S", "O", "N", "D", "e", "c", "o", "d", "e", "E", "r", "r", "o",
      "r">>

NameCancelledError ==
    <<"C", "a", "n", "c", "e", "l", "l", "e", "d", "E", "r", "r", "o", "r">>

ExpectingValueHead ==
    <<"E", "x", "p", "e", "c", "t", "i", "n", "g", " ", "v", "a", "l", "u",
      "e", ":", " ", "l", "i", "n", "e", " ">>

ColumnPart ==
    <<" ", "c", "o", "l", "u", "m", "n", " ">>

CharPart ==
    <<" ", "(", "c", "h", "a", "r", " ">>

ConnectErrorText ==
    <<"A", "l", "l", " ", "c", "o", "n", "n", "e", "c", "t", "i", "o", "n",
      " ", "a", "t", "t", "e", "m", "p", "t", "s", " ", "f", "a", "i", "l",
      "e", "d">>

ReadTimeoutText ==
    <<"T", "h", "e", " ", "r", "e", "a", "d", " ", "o", "p", "e", "r", "a",
      "t", "i", "o", "n", " ", "t", "i", "m", "e", "d", " ", "o", "u", "t">>
\* the classes an exception of class cls is an instance of
Bases(cls) ==
    CASE cls = "HTTPStatusError" ->
            {"HTTPStatusError", "HTTPError", "Exception", "BaseException"}
      [] cls = "ReadTimeout" ->
            {"ReadTimeout", "TimeoutException", "TransportError",
             "RequestError", "HTTPError", "Exception", "BaseException"}
      [] cls = "ConnectError" ->
            {"ConnectError", "NetworkError", "TransportError",
             "RequestError", "HTTPError", "Exception", "BaseException"}
      [] cls = "JSONDecodeError" ->
            {"JSONDecodeError", "ValueError", "Exception", "BaseException"}
      [] cls = "CancelledError" -> {"CancelledError", "BaseException"}

IsInstance(e, base) == base \in Bases(e.cls)

\* type(e).__name__
TypeName(e) ==
    CASE e.cls = "HTTPStatusError" -> NameHTTPStatusError
      [] e.cls = "ReadTimeout" -> NameReadTimeout
      [] e.cls = "ConnectError" -> NameConnectError
      [] e.cls = "JSONDecodeError" -> NameJSONDecodeError
      [] e.cls = "CancelledError" -> NameCancelledError

\* an exception with str(e) = desc
Fault(cls, desc) == [cls |-> cls, desc |-> desc]

\* what Response.raise_for_status raises; _handle_error reads only e.response
StatusFault(resp) == [cls |-> "HTTPStatusError", response |-> resp]

Returned(v) == [kind |-> "return", value |-> v]
Raised(e) == [kind |-> "raise", fault |-> e]
CtJson ==
    <<"a", "p", "p", "l", "i", "c", "a", "t", "i", "o", "n", "/", "j", "s",
      "o", "n">>

CtText ==
    <<"t", "e", "x", "t", "/", "p", "l", "a", "i", "n">>

KTUS ==
    <<"K", "T", "U", "S">>

KORD ==
    <<"K", "O", "R", "D">>

Raw ==
    <<"r", "a", "w">>

Turb ==
    <<"t", "u", "r", "b">>

KeyIcaoId ==
    <<"i", "c", "a", "o", "I", "d">>

KeyTemp ==
    <<"t", "e", "m", "p">>

VFR ==
    <<"V", "F", "R">>

HtmlBody ==
    <<"<", "h", "t", "m", "l", ">", "\n", "B", "a", "d", " ", "G", "a", "t",
      "e", "w", "a", "y", "\n", "<", "/", "h", "t", "m", "l", ">">>

RawMetarBody ==
    <<" ", " ", "K", "T", "U", "S", " ", "0", "3", "1", "7", "5", "3", "Z",
      " ", "1", "2", "0", "0", "8", "K", "T", " ", "\"", "C", "L", "R", "\"",
      "\n">>
(***************************************************************************)
(* The upstream: documents, bodies and responses it can send               *)
(***************************************************************************)
JsonDocs ==
    { PyList(<<PyDict(<<Pair(KeyIcaoId, PyStr(KTUS)),
                        Pair(KeyTemp, PyNum(31))>>)>>),
      PyDict(<<Pair(KeyIcaoId, PyStr(KORD))>>),
      PyList(<<>>),
      PyNum(7),
      PyStr(VFR),
      PyBool(TRUE),
      PyNone }

LongBody == Rep("x", ExcerptLen) \o <<"y">>

\* every text here starts, after leading whitespace, with a character that
\* cannot begin a JSON value
TextBodies == {<<>>, HtmlBody, RawMetarBody, LongBody}

Bodies == {Wire(v) : v \in JsonDocs} \cup TextBodies

Statuses == {200, 204, 301, 400, 500}

NoHeaders == [h \in {} |-> <<>>]
HeaderSets == {NoHeaders, [h \in {"content-type"} |-> CtJson],
               [h \in {"content-type"} |-> CtText]}

Responses == [status_code : Statuses, headers : HeaderSets, text : Bodies]

\* what `await client.get(...)` can end in
Outcomes ==
    {Returned(r) : r \in Responses}
    \cup {Raised(Fault("ReadTimeout", ReadTimeoutText)),
          Raised(Fault("ReadTimeout", <<>>)),
          Raised(Fault("ConnectError", ConnectErrorText))}

(***************************************************************************)
(* _awc_get after the response arrived, and _handle_error                  *)
(***************************************************************************)
\* headers.get(name, default)
HeaderGet(headers, name, default) ==
    IF name \in DOMAIN headers THEN headers[name] ELSE default

\* str(e) of the JSONDecodeError json.loads raises when no value starts at
\* the first non-whitespace character of doc
ExpectingValue(doc) ==
    LET body == {k \in 1..Len(doc) : doc[k] \notin Whitespace}
        pos == IF body = {} THEN Len(doc) ELSE Min(body) - 1
        breaks == {k \in 1..pos : doc[k] = NL}
        lineno == Cardinality(breaks) + 1
        colno == IF breaks = {} THEN pos + 1 ELSE pos - Max(breaks) + 1
    IN  ExpectingValueHead \o DecStr(lineno) \o ColumnPart \o DecStr(colno)
        \o CharPart \o DecStr(pos) \o <<")">>

\* resp.json(): the document whose encoding the body is, or a decode error
JsonLoads(text) ==
    LET docs == {v \in JsonDocs : Wire(v) = Strip(text)}
    IN  IF docs # {} THEN Returned(CHOOSE v \in docs : TRUE)
        ELSE Raised(Fault("JSONDecodeError", ExpectingValue(text)))

\* Response.is_success
IsSuccess(resp) == resp.status_code \in 200..299

\* variant: raise_for_status() is called before the 204 and 400 checks
AwcGetResponseRaiseFirst(resp) ==
    IF ~IsSuccess(resp) THEN Raised(StatusFault(resp))
    ELSE IF resp.status_code = 204
    THEN Returned(PyDict(<<Pair(KeyMessage, PyStr(NoDataText))>>))
    ELSE IF Contains(HeaderGet(resp.headers, "content-type", <<>>), Json)
    THEN JsonLoads(resp.text)
    ELSE Returned(PyStr(Strip(resp.text)))

\* lines 49-58 of _awc_get applied to the response resp
AwcGetResponse(resp) ==
    IF resp.status_code = 204
    THEN Returned(PyDict(<<Pair(KeyMessage, PyStr(NoDataText))>>))
    ELSE IF resp.status_code = 400
    THEN Returned(PyDict(<<Pair(KeyError,
                               PyStr(BadRequestHead \o Strip(resp.text)))>>))
    ELSE IF ~IsSuccess(resp) THEN Raised(StatusFault(resp))
    ELSE IF Contains(HeaderGet(resp.headers, "content-type", <<>>), Json)
    THEN JsonLoads(resp.text)
    ELSE Returned(PyStr(Strip(resp.text)))

\* _awc_get given what client.get ended in
AwcGet(outcome) ==
    IF outcome.kind = "raise" THEN outcome
    ELSE AwcGetResponse(outcome.value)

\* variant: the body is not cut to its first 300 characters
HandleErrorWholeBody(e) ==
    IF IsInstance(e, "HTTPStatusError")
    THEN StatusErrorHead \o DecStr(e.response.status_code) \o StatusErrorSep
         \o e.response.text
    ELSE IF IsInstance(e, "TimeoutException") THEN TimeoutMessage
    ELSE GenericErrorHead \o TypeName(e) \o GenericErrorSep \o e.desc

\* _handle_error(e)
HandleError(e) ==
    IF IsInstance(e, "HTTPStatusError")
    THEN StatusErrorHead \o DecStr(e.response.status_code) \o StatusErrorSep
         \o Slice(e.response.text, ExcerptLen)
    ELSE IF IsInstance(e, "TimeoutException") THEN TimeoutMessage
    ELSE GenericErrorHead \o TypeName(e) \o GenericErrorSep \o e.desc

\* json.dumps(data, indent=2) if isinstance(data, (dict, list)) else data
Serialize(data) ==
    IF data.t \in {"dict", "list"} THEN PyStr(Dumps(data)) ELSE data

\* variant: except httpx.HTTPError
CatchesHttpErrorOnly(e) == IsInstance(e, "HTTPError")

\* except Exception
Catches(e) == IsInstance(e, "Exception")

\* the try/except body of a tool, given what _awc_get ended in
ToolOutcome(got) ==
    IF got.kind = "return" THEN Returned(Serialize(got.value))
    ELSE IF Catches(got.fault) THEN Returned(PyStr(HandleError(got.fault)))
    ELSE got

(***************************************************************************)
(* The five tools: signatures, parameter assembly, endpoints               *)
(***************************************************************************)
\* the defaults of each tool's signature
Defaults(tool) ==
    CASE tool = "get_metar" -> [hours |-> PyNone, format |-> PyStr(Json)]
      [] tool = "get_taf" -> [format |-> PyStr(Json)]
      [] tool = "get_pireps" ->
            [id |-> PyNone, distance |-> PyNum(DefaultDistance),
             age |-> PyNum(DefaultAge), format |-> PyStr(Json)]
      [] tool = "get_airsigmet" -> [format |-> PyStr(Json), hazard |-> PyNone]
      [] tool = "get_station_info" -> [format |-> PyStr(Json)]

\* Python's argument binding: an argument the caller left out takes the
\* default of the signature
Bind(tool, a) ==
    [f \in DOMAIN a |-> IF a[f] = Omitted THEN Defaults(tool)[f] ELSE a[f]]

\* params[key] = value when cond holds
Put(params, cond, key, value) ==
    IF cond THEN (key :> value) @@ params ELSE params

\* variant: format if format is not None else "json"
FormatParamIsNotNone(b) ==
    "format" :> (IF b.format # PyNone THEN b.format ELSE PyStr(Json))

FormatParam(b) == "format" :> PyOr(b.format, PyStr(Json))

GetMetarParams(b) ==
    Put(("ids" :> b.ids) @@ FormatParam(b),
        b.hours # PyNone, "hours", b.hours)

GetTafParams(b) == ("ids" :> b.ids) @@ FormatParam(b)

\* variant: if id is not None
GetPirepsParamsIsNotNone(b) ==
    Put(Put(Put("format" :> PyOr(b.format, PyStr(Json)),
                b.id # PyNone, "id", b.id),
            b.distance # PyNone, "distance", b.distance),
        b.age # PyNone, "age", b.age)

GetPirepsParams(b) ==
    Put(Put(Put(FormatParam(b), Truthy(b.id), "id", b.id),
            b.distance # PyNone, "distance", b.distance),
        b.age # PyNone, "age", b.age)

GetAirsigmetParams(b) ==
    Put(FormatParam(b), Truthy(b.hazard), "hazard", b.hazard)

GetStationInfoParams(b) == ("ids" :> b.ids) @@ FormatParam(b)

BuildParams(tool, b) ==
    CASE tool = "get_metar" -> GetMetarParams(b)
      [] tool = "get_taf" -> GetTafParams(b)
      [] tool = "get_pireps" -> GetPirepsParams(b)
      [] tool = "get_airsigmet" -> GetAirsigmetParams(b)
      [] tool = "get_station_info" -> GetStationInfoParams(b)

Endpoint(tool) ==
    CASE tool = "get_metar" -> "metar"
      [] tool = "get_taf" -> "taf"
      [] tool = "get_pireps" -> "pirep"
      [] tool = "get_airsigmet" -> "airsigmet"
      [] tool = "get_station_info" -> "stationinfo"

(***************************************************************************)
(* The calls a host can make                                               *)
(***************************************************************************)
FormatArgs == {Omitted, PyNone, PyStr(<<>>), PyStr(Json), PyStr(Raw)}
HoursArgs == {Omitted, PyNone, PyNum(0), PyNum(2)}
IdArgs == {Omitted, PyNone, PyStr(<<>>), PyStr(KORD)}
DistanceArgs == {Omitted, PyNone, PyNum(50)}
AgeArgs == {Omitted, PyNone, PyNum(1)}
HazardArgs == {Omitted, PyNone, PyStr(<<>>), PyStr(Turb)}

CallOf(tool, a) == [tool |-> tool, args |-> a]

Calls ==
    {CallOf("get_metar", a) :
        a \in [ids : {PyStr(KTUS)}, hours : HoursArgs, format : FormatArgs]}
    \cup {CallOf("get_taf", a) :
        a \in [ids : {PyStr(KTUS)}, format : FormatArgs]}
    \cup {CallOf("get_pireps", a) :
        a \in [id : IdArgs, distance : DistanceArgs, age : AgeArgs,
               format : FormatArgs]}
    \cup {CallOf("get_airsigmet", a) :
        a \in [format : FormatArgs, hazard : HazardArgs]}
    \cup {CallOf("get_station_info", a) :
        a \in [ids : {PyStr(KORD)}, format : FormatArgs]}

\* the calls and upstream outcomes of the concurrent runs
ConcCalls ==
    {CallOf("get_metar",
            [ids |-> PyStr(KTUS), hours |-> Omitted, format |-> Omitted]),
     CallOf("get_pireps",
            [id |-> PyStr(KORD), distance |-> Omitted, age |-> Omitted,
             format |-> PyStr(Raw)])}

ConcOutcomes ==
    {Returned([status_code |-> 200,
               headers |-> [h \in {"content-type"} |-> CtJson],
               text |-> Wire(PyList(<<>>))]),
     Returned([status_code |-> 204, headers |-> NoHeaders, text |-> <<>>]),
     Returned([status_code |-> 500,
               headers |-> [h \in {"content-type"} |-> CtText],
               text |-> HtmlBody]),
     Raised(Fault("ReadTimeout", ReadTimeoutText))}

(***************************************************************************)
(* State: one invocation slot per concurrently running tool call           *)
(***************************************************************************)
VARIABLES
    pc,        \* where invocation i stands
    call,      \* the tool and the caller's arguments of invocation i
    params,    \* the parameter mapping invocation i built
    clients,   \* the AsyncClients currently open
    inflight,  \* the GET request of invocation i the upstream has not answered
    reqs,      \* the GET requests invocation i has issued
    recv,      \* what `await client.get` ended in for invocation i
    result     \* what the tool returned or raised to its caller

vars == <<pc, call, params, clients, inflight, reqs, recv, result>>

Nil == [t |-> "nil"]

\* variant: one module-level AsyncClient shared by every invocation
ClientShared(i) == 1

\* the AsyncClient an invocation works with: the one it creates itself
ClientFor(i) == i

Init ==
    /\ pc = [i \in Procs |-> "idle"]
    /\ call = [i \in Procs |-> Nil]
    /\ params = [i \in Procs |-> Nil]
    /\ clients = {}
    /\ inflight = [i \in Procs |-> Nil]
    /\ reqs = [i \in Procs |-> 0]
    /\ recv = [i \in Procs |-> Nil]
    /\ result = [i \in Procs |-> Nil]

\* the host calls a tool: arguments are bound and the mapping is built
Call(i, c) ==
    /\ pc[i] \in {"idle", "done", "raised"}
    /\ pc' = [pc EXCEPT ![i] = "built"]
    /\ call' = [call EXCEPT ![i] = c]
    /\ params' = [params EXCEPT ![i] = BuildParams(c.tool, Bind(c.tool, c.args))]
    /\ reqs' = [reqs EXCEPT ![i] = 0]
    /\ recv' = [recv EXCEPT ![i] = Nil]
    /\ result' = [result EXCEPT ![i] = Nil]
    /\ UNCHANGED <<clients, inflight>>

\* async with httpx.AsyncClient(...) as client
Open(i) ==
    /\ pc[i] = "built"
    /\ pc' = [pc EXCEPT ![i] = "open"]
    /\ clients' = clients \cup {ClientFor(i)}
    /\ UNCHANGED <<call, params, inflight, reqs, recv, result>>

\* client.get(url, params=params, headers=headers) is issued
Send(i) ==
    /\ pc[i] = "open"
    /\ pc' = [pc EXCEPT ![i] = "awaiting"]
    /\ inflight' = [inflight EXCEPT ![i] =
                        [via |-> ClientFor(i),
                         endpoint |-> Endpoint(call[i].tool),
                         params |-> params[i]]]
    /\ reqs' = [reqs EXCEPT ![i] = @ + 1]
    /\ UNCHANGED <<call, params, clients, recv, result>>

\* variant: a timed-out get is issued once more
RespondRetrying(i, o) ==
    /\ pc[i] = "awaiting"
    /\ inflight[i] # Nil
    /\ inflight[i].via \in clients
    /\ IF o.kind = "raise" /\ reqs[i] < 2
       THEN /\ reqs' = [reqs EXCEPT ![i] = @ + 1]
            /\ UNCHANGED <<pc, inflight, recv>>
       ELSE /\ pc' = [pc EXCEPT ![i] = "closing"]
            /\ inflight' = [inflight EXCEPT ![i] = Nil]
            /\ recv' = [recv EXCEPT ![i] = o]
            /\ UNCHANGED reqs
    /\ UNCHANGED <<call, params, clients, result>>

\* the awaited get ends: a response, a timeout or a transport error
Respond(i, o) ==
    /\ pc[i] = "awaiting"
    /\ inflight[i] # Nil
    /\ inflight[i].via \in clients
    /\ pc' = [pc EXCEPT ![i] = "closing"]
    /\ inflight' = [inflight EXCEPT ![i] = Nil]
    /\ recv' = [recv EXCEPT ![i] = o]
    /\ UNCHANGED <<call, params, clients, reqs, result>>

\* the host cancels the task while it awaits the response
Cancel(i) ==
    /\ pc[i] = "awaiting"
    /\ pc' = [pc EXCEPT ![i] = "closing"]
    /\ inflight' = [inflight EXCEPT ![i] = Nil]
    /\ recv' = [recv EXCEPT ![i] = Raised(Fault("CancelledError", <<>>))]
    /\ UNCHANGED <<call, params, clients, reqs, result>>

\* variant: no async with; the client is closed only after _awc_get's
\* return statements
ReleaseOnReturnOnly(i) ==
    /\ pc[i] = "closing"
    /\ pc' = [pc EXCEPT ![i] = "closed"]
    /\ clients' = IF AwcGet(recv[i]).kind = "return"
                  THEN clients \ {ClientFor(i)} ELSE clients
    /\ UNCHANGED <<call, params, inflight, reqs, recv, result>>

\* the rest of _awc_get runs and the async with block is left: the client
\* is closed whether the block ends in a return or in an exception
Release(i) ==
    /\ pc[i] = "closing"
    /\ pc' = [pc EXCEPT ![i] = "closed"]
    /\ clients' = clients \ {ClientFor(i)}
    /\ UNCHANGED <<call, params, inflight, reqs, recv, result>>

\* the tool serializes what _awc_get returned, or handles what it raised,
\* and ends
Return(i) ==
    /\ pc[i] = "closed"
    /\ result' = [result EXCEPT ![i] = ToolOutcome(AwcGet(recv[i]))]
    /\ pc' = [pc EXCEPT ![i] =
                 IF result'[i].kind = "return" THEN "done" ELSE "raised"]
    /\ UNCHANGED <<call, params, clients, inflight, reqs, recv>>

\* one invocation at a time, every call and every upstream outcome
Next ==
    \/ \E c \in Calls : Call(1, c)
    \/ Open(1)
    \/ Send(1)
    \/ \E o \in Outcomes : Respond(1, o)
    \/ Cancel(1)
    \/ Release(1)
    \/ Return(1)

Spec == Init /\ [][Next]_vars

\* concurrent invocations
ConcNext ==
    \E i \in Procs :
        \/ \E c \in ConcCalls : Call(i, c)
        \/ Open(i)
        \/ Send(i)
        \/ \E o \in ConcOutcomes : Respond(i, o)
        \/ Cancel(i)
        \/ Release(i)
        \/ Return(i)

ConcSpec == Init /\ [][ConcNext]_vars

\* the event loop resumes a ready coroutine, and the request timeout bounds
\* the wait for the upstream
Fairness ==
    \A i \in Procs :
        /\ WF_vars(Send(i))
        /\ WF_vars(\E o \in ConcOutcomes : Respond(i, o))
        /\ WF_vars(Release(i))

LiveSpec == ConcSpec /\ Fairness

(***************************************************************************)
(* The texts the properties below expect, written out character by         *)
(* character                                                               *)
(***************************************************************************)
ExpectedErrorPrefix ==
    <<"E", "r", "r", "o", "r", ":">>

ExpectedStatusHead ==
    <<"E", "r", "r", "o", "r", ":", " ", "A", "P", "I", " ", "r", "e", "t",
      "u", "r", "n", "e", "d", " ", "s", "t", "a", "t", "u", "s", " ">>

ExpectedTimeoutText ==
    <<"E", "r", "r", "o", "r", ":", " ", "R", "e", "q", "u", "e", "s", "t",
      " ", "t", "o", " ", "a", "v", "i", "a", "t", "i", "o", "n", "w", "e",
      "a", "t", "h", "e", "r", ".", "g", "o", "v", " ", "t", "i", "m", "e",
      "d", " ", "o", "u", "t", ".", " ", "T", "r", "y", " ", "a", "g", "a",
      "i", "n", ".">>

ExpectedDecodeErrorHead ==
    <<"E", "r", "r", "o", "r", ":", " ", "J", "S", "O", "N", "D", "e", "c",
      "o", "d", "e", "E", "r", "r", "o", "r", ":", " ">>

ExpectedConnectErrorHead ==
    <<"E", "r", "r", "o", "r", ":", " ", "C", "o", "n", "n", "e", "c", "t",
      "E", "r", "r", "o", "r", ":", " ">>

ExpectedNoDataDump ==
    <<"{", "\n", " ", " ", "\"", "m", "e", "s", "s", "a", "g", "e", "\"",
      ":", " ", "\"", "N", "o", " ", "d", "a", "t", "a", " ", "a", "v", "a",
      "i", "l", "a", "b", "l", "e", " ", "f", "o", "r", " ", "t", "h", "i",
      "s", " ", "r", "e", "q", "u", "e", "s", "t", ".", "\"", "\n", "}">>

ExpectedNoDataFragment ==
    <<"\"", "m", "e", "s", "s", "a", "g", "e", "\"", ":", " ", "\"", "N",
      "o", " ", "d", "a", "t", "a", " ", "a", "v", "a", "i", "l", "a", "b",
      "l", "e", " ", "f", "o", "r", " ", "t", "h", "i", "s", " ", "r", "e",
      "q", "u", "e", "s", "t", ".", "\"">>

ExpectedBadRequestOpen ==
    <<"{", "\n", " ", " ", "\"", "e", "r", "r", "o", "r", "\"", ":", " ",
      "\"", "B", "a", "d", " ", "r", "e", "q", "u", "e", "s", "t", " ", "\\",
      "u", "2", "0", "1", "3", " ", "c", "h", "e", "c", "k", " ", "y", "o",
      "u", "r", " ", "p", "a", "r", "a", "m", "e", "t", "e", "r", "s", ".",
      " ", "D", "e", "t", "a", "i", "l", "s", ":", " ">>

ExpectedBadRequestClose ==
    <<"\"", "\n", "}">>
\* the upstream answered invocation i with a response of this status
Answered(i, status) ==
    /\ recv[i] # Nil
    /\ recv[i].kind = "return"
    /\ recv[i].value.status_code = status

\* the body of a response is the encoding of a JSON document
IsJsonText(text) == \E v \in JsonDocs : Wire(v) = Strip(text)

\* the response declares a JSON content type
DeclaresJson(resp) ==
    /\ "content-type" \in DOMAIN resp.headers
    /\ Contains(resp.headers["content-type"], Json)

\* the kind of fault, if any, that what the get ended in amounts to:
\* "status", "timeout", "other", "cancel" or "none"
FaultKind(o) ==
    IF o.kind = "raise"
    THEN CASE o.fault.cls = "ReadTimeout" -> "timeout"
           [] o.fault.cls = "CancelledError" -> "cancel"
           [] OTHER -> "other"
    ELSE LET r == o.value
         IN  IF r.status_code \in {204, 400} THEN "none"
             ELSE IF r.status_code \notin 200..299 THEN "status"
             ELSE IF DeclaresJson(r) /\ ~IsJsonText(r.text) THEN "other"
             ELSE "none"

Completed(i) == pc[i] \in {"done", "raised"}

\* invocation i returned the Python str s
ReturnedText(i, s) ==
    /\ pc[i] = "done"
    /\ result[i] = Returned(PyStr(s))

\* invocation i returned some Python str
ReturnedSomeText(i) ==
    /\ pc[i] = "done"
    /\ result[i].kind = "return"
    /\ result[i].value.t = "str"

(***************************************************************************)
(* C1: whenever an operation runs into a status fault, a timeout fault or  *)
(* an unclassified fault (transport or decode error), it does not raise    *)
(* to its caller; it returns a string that begins with "Error:".           *)
(***************************************************************************)
C1_FaultsContained ==
    \A i \in Procs :
        (Completed(i) /\ FaultKind(recv[i]) \in {"status", "timeout", "other"})
        => /\ ReturnedSomeText(i)
           /\ StartsWith(result[i].value.s, ExpectedErrorPrefix)

\* a decode error inside _awc_get came back as an error string
C1_Witness ==
    /\ pc[1] = "done"
    /\ recv[1].kind = "return"
    /\ FaultKind(recv[1]) = "other"
    /\ StartsWith(result[1].value.s, ExpectedErrorPrefix)

(***************************************************************************)
(* C2: every completed invocation returns a single string, whatever the    *)
(* upstream sent, including a JSON body that is a number, a string, a      *)
(* boolean or null.                                                        *)
(***************************************************************************)
C2_AlwaysString ==
    \A i \in Procs : pc[i] = "done" => result[i].value.t = "str"

(***************************************************************************)
(* C3: a 204 or a 400 response is returned as data whatever its content    *)
(* type and body: 204 gives the serialized no-data message, 400 gives the  *)
(* serialized bad-request message embedding the trimmed body; neither      *)
(* raises nor gives a string beginning with "Error:".                      *)
(***************************************************************************)
C3_NoDataAndBadRequestAreData ==
    \A i \in Procs :
        /\ (Completed(i) /\ Answered(i, 204))
           => /\ ReturnedText(i, ExpectedNoDataDump)
              /\ Contains(result[i].value.s, ExpectedNoDataFragment)
        /\ (Completed(i) /\ Answered(i, 400))
           => /\ ReturnedText(i, ExpectedBadRequestOpen
                                 \o EscapeStr(Strip(recv[i].value.text))
                                 \o ExpectedBadRequestClose)
        /\ (Completed(i) /\ (Answered(i, 204) \/ Answered(i, 400)))
           => ~StartsWith(result[i].value.s, ExpectedErrorPrefix)

\* a 400 whose declared JSON body does not parse was still returned as data
C3_Witness ==
    /\ pc[1] = "done"
    /\ Answered(1, 400)
    /\ DeclaresJson(recv[1].value)
    /\ recv[1].value.text = HtmlBody
    /\ result[1].value.t = "str"

(***************************************************************************)
(* C4: the error string depends on the kind of fault alone.  A status      *)
(* other than 2xx and 400 gives "Error: API returned status <code>. "      *)
(* followed by exactly the first 300 characters of the body; a timeout     *)
(* gives exactly the fixed timed-out sentence; any other fault gives       *)
(* "Error: <class name>: <description>".                                   *)
(***************************************************************************)
C4_ErrorStringByFaultKind ==
    \A i \in Procs :
        pc[i] = "done" =>
            LET kind == FaultKind(recv[i])
                text == result[i].value.s
            IN  /\ kind = "status" =>
                    LET r == recv[i].value
                        head == ExpectedStatusHead \o DecStr(r.status_code)
                                \o <<".", " ">>
                        n == IF Len(r.text) < 300 THEN Len(r.text) ELSE 300
                    IN  /\ ReturnedSomeText(i)
                        /\ Len(text) = Len(head) + n
                        /\ StartsWith(text, head)
                        /\ \A k \in 1..n : text[Len(head) + k] = r.text[k]
                /\ kind = "timeout" => ReturnedText(i, ExpectedTimeoutText)
                /\ (kind = "other" /\ recv[i].kind = "raise") =>
                    ReturnedText(i, ExpectedConnectErrorHead
                                    \o recv[i].fault.desc)
                /\ (kind = "other" /\ recv[i].kind = "return") =>
                    /\ ReturnedSomeText(i)
                    /\ StartsWith(text, ExpectedDecodeErrorHead)

\* a status fault whose body is longer than the excerpt
C4_Witness ==
    /\ pc[1] = "done"
    /\ Answered(1, 500)
    /\ Len(recv[1].value.text) > 300
    /\ StartsWith(result[1].value.s, ExpectedStatusHead)

(***************************************************************************)
(* C7: every error string returned for a fault is a single line: it        *)
(* contains no line break.                                                 *)
(***************************************************************************)
C7_ErrorIsOneLine ==
    \A i \in Procs :
        (pc[i] = "done" /\ FaultKind(recv[i]) \in {"status", "timeout", "other"})
        => \A k \in 1..Len(result[i].value.s) : result[i].value.s[k] # NL

(***************************************************************************)
(* Parameter mapping of the request in flight                              *)
(***************************************************************************)
Requesting(i) == inflight[i] # Nil

ArgsOf(i) == call[i].args
Sent(i) == inflight[i].params

\* the caller passed a value for argument f that is not None
Supplied(a, f) == f \in DOMAIN a /\ a[f] \notin {Omitted, PyNone}

\* the caller passed a value for f that is neither None nor the empty string
SuppliedNonEmpty(a, f) == Supplied(a, f) /\ a[f] # PyStr(<<>>)

\* key f is sent exactly when `present` holds, with the caller's value
SentIff(i, f, present) ==
    /\ (f \in DOMAIN Sent(i)) <=> present
    /\ present => Sent(i)[f] = ArgsOf(i)[f]

\* a parameter with a default in the signature: the default when left out,
\* nothing when None is passed, the caller's value otherwise
SentWithDefault(i, f, default) ==
    f \in DOMAIN ArgsOf(i) =>
        /\ ArgsOf(i)[f] = Omitted =>
               (f \in DOMAIN Sent(i) /\ Sent(i)[f] = PyNum(default))
        /\ ArgsOf(i)[f] = PyNone => f \notin DOMAIN Sent(i)
        /\ Supplied(ArgsOf(i), f) =>
               (f \in DOMAIN Sent(i) /\ Sent(i)[f] = ArgsOf(i)[f])

\* what holds of every mapping whichever way emptiness is read
ParamsCommon(i) ==
    /\ SentIff(i, "ids", "ids" \in DOMAIN ArgsOf(i))
    /\ SentIff(i, "hours", Supplied(ArgsOf(i), "hours"))
    /\ SentWithDefault(i, "distance", 200)
    /\ SentWithDefault(i, "age", 2)
    /\ DOMAIN Sent(i) \subseteq DOMAIN ArgsOf(i)
    /\ "format" \in DOMAIN Sent(i)
    /\ (/\ call[i].tool \in {"get_metar", "get_taf"}
        /\ ArgsOf(i).ids = PyStr(KTUS)
        /\ ArgsOf(i).format = Omitted
        /\ ~Supplied(ArgsOf(i), "hours"))
       => Sent(i) = [k \in {"ids", "format"} |->
                        IF k = "ids" THEN PyStr(KTUS) ELSE PyStr(Json)]

(***************************************************************************)
(* C5 as stated: the key of hours, id or hazard is in the mapping if and   *)
(* only if the caller supplied a value that is not absent; distance and    *)
(* age carry 200 and 2.0 when left out; no other key appears; get_metar    *)
(* and get_taf with ids "KTUS" send exactly ids and format "json".         *)
(***************************************************************************)
C5_AsStated ==
    \A i \in Procs :
        Requesting(i) =>
            /\ ParamsCommon(i)
            /\ SentIff(i, "id", Supplied(ArgsOf(i), "id"))
            /\ SentIff(i, "hazard", Supplied(ArgsOf(i), "hazard"))

(***************************************************************************)
(* C5 amended: as C5, except that the key of id or hazard is in the        *)
(* mapping if and only if the caller supplied a value that is neither      *)
(* None nor the empty string.                                              *)
(***************************************************************************)
C5_OptionalKeys ==
    \A i \in Procs :
        Requesting(i) =>
            /\ ParamsCommon(i)
            /\ SentIff(i, "id", SuppliedNonEmpty(ArgsOf(i), "id"))
            /\ SentIff(i, "hazard", SuppliedNonEmpty(ArgsOf(i), "hazard"))

\* a get_pireps request whose caller passed the empty string as id
C5_Witness ==
    /\ Requesting(1)
    /\ call[1].tool = "get_pireps"
    /\ ArgsOf(1).id = PyStr(<<>>)
    /\ ArgsOf(1).distance = Omitted
    /\ "id" \notin DOMAIN Sent(1)
    /\ Sent(1)["distance"] = PyNum(200)

(***************************************************************************)
(* C6 as stated: format is always in the mapping; it is the caller's       *)
(* value whenever the caller supplied one, and "json" when the caller      *)
(* passed no value (left out or None).                                     *)
(***************************************************************************)
C6_AsStated ==
    \A i \in Procs :
        Requesting(i) =>
            /\ "format" \in DOMAIN Sent(i)
            /\ Supplied(ArgsOf(i), "format")
               => Sent(i)["format"] = ArgsOf(i).format
            /\ ~Supplied(ArgsOf(i), "format")
               => Sent(i)["format"] = PyStr(Json)

(***************************************************************************)
(* C6 amended: format is always in the mapping; it is the caller's value   *)
(* whenever the caller supplied a non-empty one, and "json" when the       *)
(* caller left it out, passed None or passed the empty string.             *)
(***************************************************************************)
C6_FormatAlwaysSent ==
    \A i \in Procs :
        Requesting(i) =>
            /\ "format" \in DOMAIN Sent(i)
            /\ SuppliedNonEmpty(ArgsOf(i), "format")
               => Sent(i)["format"] = ArgsOf(i).format
            /\ ~SuppliedNonEmpty(ArgsOf(i), "format")
               => Sent(i)["format"] = PyStr(Json)

\* a request whose caller passed the empty string as format
C6_Witness ==
    /\ Requesting(1)
    /\ ArgsOf(1).format = PyStr(<<>>)
    /\ Sent(1)["format"] = PyStr(Json)

(***************************************************************************)
(* C8: an invocation issues exactly one GET request: none before it sends, *)
(* one from then on, whatever the get ends in; nothing is retried.         *)
(***************************************************************************)
C8_OneRequest ==
    \A i \in Procs :
        /\ pc[i] \in {"idle", "built", "open"} => reqs[i] = 0
        /\ pc[i] \in {"awaiting", "closing", "closed", "done", "raised"}
           => reqs[i] = 1

\* an invocation that timed out completed with its one request
C8_Witness ==
    \E i \in Procs :
        /\ pc[i] = "done"
        /\ FaultKind(recv[i]) = "timeout"
        /\ reqs[i] = 1

(***************************************************************************)
(* C9: an invocation sends its request through the client it opened        *)
(* itself; no completed invocation holds an open client, on any exit path  *)
(* including cancellation; and every client that is opened is eventually   *)
(* closed.                                                                 *)
(***************************************************************************)
C9_ClientScoped ==
    /\ [](\A i \in Procs :
            /\ Requesting(i) => (inflight[i].via = i /\ i \in clients)
            /\ pc[i] \in {"idle", "built", "closed", "done", "raised"}
               => i \notin clients)
    /\ \A i \in Procs : (i \in clients) ~> (i \notin clients)

\* a cancelled invocation has closed its client while another still waits
C9_Witness ==
    \E i, j \in Procs :
        /\ pc[i] = "raised"
        /\ recv[i].fault.cls = "CancelledError"
        /\ i \notin clients
        /\ pc[j] = "awaiting"
        /\ j \in clients

(***************************************************************************)
(* C10: concurrent invocations are independent: a step of one invocation   *)
(* changes nothing another invocation reads, two invocations with the same *)
(* call and the same upstream outcome return the same result, and an       *)
(* invocation waiting for its response can always receive it, whatever     *)
(* happened to the others.                                                 *)
(***************************************************************************)
Slot(i) ==
    <<pc[i], call[i], params[i], inflight[i], reqs[i], recv[i], result[i],
      IF inflight[i] = Nil THEN FALSE ELSE inflight[i].via \in clients>>

C10_Independent ==
    /\ [][\A i, j \in Procs :
            i # j => (Slot(i)' = Slot(i) \/ Slot(j)' = Slot(j))]_vars
    /\ [](\A i, j \in Procs :
            (Completed(i) /\ Completed(j)
             /\ call[i] = call[j] /\ recv[i] = recv[j])
            => result[i] = result[j])
    /\ [](\A i \in Procs :
            pc[i] = "awaiting"
            => (Requesting(i) /\ inflight[i].via \in clients))

\* one invocation ended in an error string, another completed normally
C10_Witness ==
    \E i, j \in Procs :
        /\ pc[i] = "done"
        /\ FaultKind(recv[i]) = "status"
        /\ pc[j] = "done"
        /\ FaultKind(recv[j]) = "none"
        /\ Answered(j, 200)

====
